---- MODULE Spec2Model ----
(***************************************************************************)
(* The OAuth2 authorization server of P21_BAS (package main + package      *)
(* server) together with the ledger (bcconnector) it mirrors codes and     *)
(* tokens into.  Handlers are modelled from the Go source; the grant       *)
(* store (oauth2.Manager), the error tables and the ledger connector are   *)
(* not part of the source tree and are modelled from the specification.    *)
(***************************************************************************)
EXTENDS Integers, Sequences, FiniteSets, TLC

\* ------------------------------------------------------------------ bounds
MaxCodes == 1
MaxTokens == 2
MaxStateLen == 2

\* ------------------------------------------------- state of the program
VARIABLES
    codes,      \* GrantStore: live authorization codes
    tokens,     \* GrantStore: live access/refresh tokens
    nCodes,     \* number of codes minted so far
    nTokens,    \* number of access tokens minted so far
    ledger,     \* records visible in the ledger
    pending,    \* detached Create*Info goroutines still running
    lost,       \* records whose detached write failed (logged only)
    inflight,   \* token requests between GetAccessToken and ReadCodeInfo
    exchanged,  \* history: <<code, access token>> of successful exchanges
    resp        \* the last HTTP response written

vars == <<codes, tokens, nCodes, nTokens, ledger, pending, lost, inflight,
          exchanged, resp>>

\* ------------------------------------------------------ main.go settings
idvar == "222222"
secretvar == "22222222"
domainvar == "http://localhost:9094"

\* the client registered in the client store by main()
clientStore == { [ID |-> idvar, Secret |-> secretvar, Domain |-> domainvar] }

\* --------------------------------------------------------------- hashing
\* a digest that returns its input
genHashS256_Identity(s) == s

\* genHashS256: base64(sha256(s)).  The digest is abstracted to a tagged
\* string: deterministic, never empty, different from its input and
\* collision free on the secrets of the model.
genHashS256(s) == "sha256:" \o s

CodeID(code) == "CI_" \o genHashS256(code)

TokenID(access) == "TI_" \o genHashS256(access)

\* ------------------------------------------------------- ledger records
ZeroCodeInfo ==
    [InfoType |-> "", ID_code |-> "", DID_RO |-> "", DID_client |-> "",
     Scope |-> "", Hash_code |-> "", Time_issueed |-> 0,
     URI_Redirection |-> "", Condition |-> "", ID_token |-> ""]

ZeroTokenInfo ==
    [InfoType |-> "", ID_token |-> "", DID_RO |-> "", DID_client |-> "",
     Scope |-> "", Hash_token |-> "", Time_issueed |-> 0,
     Time_expiration |-> 0, URI_Redirection |-> "", Condition |-> ""]

\* bcconnector.ReadCodeInfo: the record stored under id, the zero value
\* when the ledger holds none or cannot be reached
\* (reachable = FALSE).
ReadCodeInfo(id, reachable) ==
    LET hit == { r \in ledger : r.InfoType = "CodeInfo" /\ r.ID_code = id }
    IN  IF reachable /\ hit # {} THEN CHOOSE r \in hit : TRUE
        ELSE ZeroCodeInfo

\* bcconnector.ReadTokenInfo
ReadTokenInfo(id, reachable) ==
    LET hit == { r \in ledger : r.InfoType = "TokenInfo" /\ r.ID_token = id }
    IN  IF reachable /\ hit # {} THEN CHOOSE r \in hit : TRUE
        ELSE ZeroTokenInfo

\* ------------------------------------------------------- error taxonomy
\* package errors: the OAuth2 response errors and their descriptions
ResponseErrors ==
    {"invalid_request", "unauthorized_client", "access_denied",
     "unsupported_response_type", "invalid_scope", "server_error",
     "temporarily_unavailable", "invalid_client", "invalid_grant",
     "unsupported_grant_type", "code_challenge_required",
     "unsupported_code_challenge_method", "invalid_code_challenge_len"}

Descriptions == [e \in ResponseErrors |-> "description of " \o e]

StatusCodes ==
    [e \in ResponseErrors |->
        CASE e \in {"unauthorized_client", "invalid_client"} -> 401
          [] e = "access_denied" -> 403
          [] e = "server_error" -> 500
          [] e = "temporarily_unavailable" -> 503
          [] OTHER -> 400]

\* errors of the grant store that are no response errors
ErrInvalidRedirectURI == "invalid redirect uri"
ErrInvalidAuthorizeCode == "invalid authorize code"
ErrInvalidRefreshToken == "invalid refresh token"
ErrExpiredRefreshToken == "expired refresh token"
ErrInvalidCodeChallenge == "invalid code challenge"
ErrMissingCodeChallenge == "missing code challenge"
ErrMissingCodeVerifier == "missing code verifier"
ErrInvalidAccessToken == "invalid_access_token"

\* Server.GetErrorData with the handlers main() installs: the internal
\* error handler returns nil and the response error handler only logs.
GetErrorData(err) ==
    LET e == IF err \in DOMAIN Descriptions THEN err ELSE "server_error"
    IN  [data |-> ("error" :> e) @@ ("error_description" :> Descriptions[e]),
         statusCode |-> IF StatusCodes[e] > 0 THEN StatusCodes[e] ELSE 500]

\* ------------------------------------------------------- configuration
\* server.NewConfig()
Config ==
    [TokenType |-> "Bearer",
     AllowedResponseTypes |-> {"code", "token"},
     AllowedGrantTypes |-> {"authorization_code", "password",
                            "client_credentials", "refresh_token"},
     AllowedCodeChallengeMethods |-> {"plain", "S256"},
     AllowGetAccessRequest |-> FALSE,
     ForcePKCE |-> FALSE]

\* ------------------------------------------------------------ redirects
NoParams == [k \in {} |-> ""]

\* A text that is escaped or parsed is a sequence of atoms: a word of
\* unreserved characters, one of the characters & = + % and space, or one
\* escape %XX.
\* url.QueryEscape, atom by atom
QueryEscapeAtom(a) ==
    CASE a = " " -> "+"
      [] a = "&" -> "%26"
      [] a = "=" -> "%3D"
      [] a = "+" -> "%2B"
      [] a = "%" -> "%25"
      [] OTHER -> a

QueryEscape(t) == [i \in 1..Len(t) |-> QueryEscapeAtom(t[i])]

\* url.QueryUnescape, atom by atom
QueryUnescapeAtom(a) ==
    CASE a = "+" -> " "
      [] a = "%20" -> " "
      [] a = "%26" -> "&"
      [] a = "%3D" -> "="
      [] a = "%2B" -> "+"
      [] a = "%25" -> "%"
      [] OTHER -> a

QueryUnescape(t) == [i \in 1..Len(t) |-> QueryUnescapeAtom(t[i])]

\* URL.EscapedFragment as URL.String() writes a fragment that was assigned
\* to URL.Fragment: in a fragment & = + are left as they are
EscapedFragment(t) ==
    [i \in 1..Len(t) |-> CASE t[i] = " " -> "%20"
                            [] t[i] = "%" -> "%25"
                            [] OTHER -> t[i]]

\* the keys of the response data, in the order Values.Encode sorts them
KeyOrder ==
    <<"access_token", "code", "error", "error_description", "expires_in",
      "refresh_token", "scope", "state", "token_type">>

RECURSIVE EncodeFrom(_, _)
EncodeFrom(q, i) ==
    IF i > Len(KeyOrder) THEN <<>>
    ELSE LET k == KeyOrder[i]
             rest == EncodeFrom(q, i + 1)
         IN  IF k \notin DOMAIN q THEN rest
             ELSE <<k, "=">> \o QueryEscape(q[k]) \o
                  (IF rest = <<>> THEN <<>> ELSE <<"&">> \o rest)

\* url.Values.Encode
Encode(q) == EncodeFrom(q, 1)

\* url.ParseQuery, as the receiver of the redirect reads a query string or
\* a form-encoded fragment: the pairs are split at &, each at its first =,
\* and unescaped; the first pair of a key gives its value (Values.Get)
ParseQuery(t) ==
    LET cuts == {0, Len(t) + 1} \cup { i \in 1..Len(t) : t[i] = "&" }
        pairs == { c \in cuts \X cuts :
                     /\ c[1] + 1 < c[2]
                     /\ \A m \in cuts : ~(c[1] < m /\ m < c[2]) }
        eq(c) == { i \in (c[1] + 1)..(c[2] - 1) : t[i] = "=" }
        split(c) == IF eq(c) = {} THEN c[2]
                    ELSE CHOOSE i \in eq(c) : \A j \in eq(c) : i <= j
        named == { c \in pairs : split(c) = c[1] + 2 }
        first(k) == CHOOSE c \in named :
                        /\ t[c[1] + 1] = k
                        /\ \A d \in named : t[d[1] + 1] = k => c[1] <= d[1]
    IN  [k \in { t[c[1] + 1] : c \in named } |->
            QueryUnescape(SubSeq(t, split(first(k)) + 1, first(k)[2] - 1))]

\* fmt.Sprint of a value of the response data, a word
Sprint(v) == <<v>>

\* url.Parse on the redirect URIs of the model, which have neither a query
\* nor a fragment: "%zz" is an invalid escape
urlParse(uri) ==
    IF uri = "%zz" THEN [ok |-> FALSE, err |-> "parse: invalid URL escape"]
    ELSE [ok |-> TRUE, base |-> uri, RawQuery |-> <<>>, Fragment |-> <<>>]

NilRequest == [nil |-> TRUE]

\* Server.GetRedirectURI
GetRedirectURI(req, data) ==
    LET u == urlParse(req.RedirectURI)
        q0 == IF req.State # <<>> THEN ("state" :> req.State) ELSE NoParams
        q == [k \in DOMAIN data |-> Sprint(data[k])] @@ q0
    IN  IF ~u.ok THEN u
        ELSE CASE req.ResponseType = "code" ->
                    [u EXCEPT !.RawQuery = Encode(q)]
               [] req.ResponseType = "token" ->
                    [u EXCEPT !.RawQuery = <<>>,
                              !.Fragment = QueryUnescape(Encode(q))]
               [] OTHER -> u

\* Server.redirect: the handler's outcome, a 302 or the error returned
redirect(req, data) ==
    LET uri == GetRedirectURI(req, data)
    IN  IF ~uri.ok THEN [status |-> 0, err |-> uri.err, loc |-> NilRequest]
        ELSE [status |-> 302, err |-> "", loc |-> uri]

\* redirectError that never redirects: every error is returned to the caller
redirectError_NoRedirect(req, err) ==
    [status |-> 0, err |-> err, loc |-> NilRequest]

\* Server.redirectError
redirectError(req, err) ==
    IF req = NilRequest THEN [status |-> 0, err |-> err, loc |-> NilRequest]
    ELSE redirect(req, GetErrorData(err).data)

\* Server.CheckResponseType
CheckResponseType(cfg, rt) == rt \in cfg.AllowedResponseTypes

\* Server.CheckCodeChallengeMethod
CheckCodeChallengeMethod(cfg, ccm) == ccm \in cfg.AllowedCodeChallengeMethods

\* ValidationAuthorizeRequest with the limits of the code challenge length
\* taken as excluded
ValidationAuthorizeRequest_Exclusive(cfg, r) ==
    LET fail(e) == [req |-> NilRequest, err |-> e]
        ccm == IF r.code_challenge_method = "" THEN "plain"
               ELSE r.code_challenge_method
    IN  IF ~(r.Method = "GET" \/ r.Method = "POST") \/ r.client_id = ""
        THEN fail("invalid_request")
        ELSE IF r.response_type = "" THEN fail("unsupported_response_type")
        ELSE IF r.response_type \notin cfg.AllowedResponseTypes
        THEN fail("unauthorized_client")
        ELSE IF r.ccLen = 0 /\ cfg.ForcePKCE
        THEN fail("code_challenge_required")
        ELSE IF r.ccLen # 0 /\ (r.ccLen <= 43 \/ r.ccLen >= 128)
        THEN fail("invalid_code_challenge_len")
        ELSE IF ccm \notin cfg.AllowedCodeChallengeMethods
        THEN fail("unsupported_code_challenge_method")
        ELSE [req |-> [RedirectURI |-> r.redirect_uri,
                       ResponseType |-> r.response_type,
                       ClientID |-> r.client_id,
                       State |-> r.state,
                       Scope |-> r.scope,
                       UserID |-> "",
                       ccLen |-> r.ccLen,
                       CodeChallengeMethod |-> ccm],
              err |-> ""]

\* Server.ValidationAuthorizeRequest; the code challenge is represented by
\* its length
ValidationAuthorizeRequest(cfg, r) ==
    LET fail(e) == [req |-> NilRequest, err |-> e]
        ccm == IF r.code_challenge_method = "" THEN "plain"
               ELSE r.code_challenge_method
    IN  IF ~(r.Method = "GET" \/ r.Method = "POST") \/ r.client_id = ""
        THEN fail("invalid_request")
        ELSE IF r.response_type = "" THEN fail("unsupported_response_type")
        ELSE IF ~CheckResponseType(cfg, r.response_type)
        THEN fail("unauthorized_client")
        ELSE IF r.ccLen = 0 /\ cfg.ForcePKCE
        THEN fail("code_challenge_required")
        ELSE IF r.ccLen # 0 /\ (r.ccLen < 43 \/ r.ccLen > 128)
        THEN fail("invalid_code_challenge_len")
        ELSE IF ccm # "" /\ ~CheckCodeChallengeMethod(cfg, ccm)
        THEN fail("unsupported_code_challenge_method")
        ELSE [req |-> [RedirectURI |-> r.redirect_uri,
                       ResponseType |-> r.response_type,
                       ClientID |-> r.client_id,
                       State |-> r.state,
                       Scope |-> r.scope,
                       UserID |-> "",
                       ccLen |-> r.ccLen,
                       CodeChallengeMethod |-> ccm],
              err |-> ""]

\* ----------------------------------------------------------- GrantStore
\* the secrets the generators hand out: fresh, never repeated
CodeOf(n) == "c" \o ToString(n)

AccessOf(n) == "t" \o ToString(n)

RefreshOf(n) == "r" \o ToString(n)

NoToken ==
    [ClientID |-> "", UserID |-> "", RedirectURI |-> "", Scope |-> "",
     Code |-> "", Access |-> "", Refresh |-> "", AccessCreateAt |-> 0,
     AccessExpiresIn |-> 0, ccLen |-> 0, CodeChallengeMethod |-> ""]

\* manage.ValidateURI: the redirect URI must lie under the client's domain
ValidateURI(domain, uri) == uri = domain \o "/auth"

\* Manager.GenerateAuthToken, the checks made before a code or an implicit
\* token is minted: the error, "" when there is none
GenerateAuthTokenErr(tgr) ==
    LET cli == { c \in clientStore : c.ID = tgr.ClientID }
    IN  IF cli = {} THEN "invalid_client"
        ELSE IF tgr.RedirectURI # "" /\
                \A c \in cli : ~ValidateURI(c.Domain, tgr.RedirectURI)
        THEN ErrInvalidRedirectURI
        ELSE ""

\* Manager.GenerateAuthToken, the token information it stores and returns;
\* instants (time.Now()) are abstracted to the serial number of the secret
\* that is minted at that instant
GenerateAuthToken(rt, tgr) ==
    LET base == [NoToken EXCEPT !.ClientID = tgr.ClientID,
                                !.UserID = tgr.UserID,
                                !.RedirectURI = tgr.RedirectURI,
                                !.Scope = tgr.Scope]
    IN  IF rt = "code"
        THEN [base EXCEPT !.Code = CodeOf(nCodes + 1),
                          !.ccLen = tgr.ccLen,
                          !.CodeChallengeMethod = tgr.CodeChallengeMethod]
        ELSE [base EXCEPT !.Access = AccessOf(nTokens + 1),
                          !.AccessCreateAt = nTokens + 1,
                          !.AccessExpiresIn = 7200]

\* Manager.GetClient(...).GetDomain()
ClientDomain(id) == (CHOOSE c \in clientStore : c.ID = id).Domain

\* ------------------------------------------------------ response data
\* Server.GetTokenData (no ExtensionFieldsHandler is installed)
GetTokenData(ti) ==
    (IF ti.Scope # "" THEN ("scope" :> ti.Scope) ELSE NoParams) @@
    (IF ti.Refresh # "" THEN ("refresh_token" :> ti.Refresh) ELSE NoParams) @@
    ("access_token" :> ti.Access) @@ ("token_type" :> Config.TokenType) @@
    ("expires_in" :> ToString(ti.AccessExpiresIn))

\* Server.GetAuthorizeData
GetAuthorizeData(rt, ti) ==
    IF rt = "code" THEN ("code" :> ti.Code) ELSE GetTokenData(ti)

\* the write made in the handler's own goroutine, before the response
AwaitCreate(rec) ==
    /\ ledger' = ledger \cup {rec}
    /\ UNCHANGED <<pending, lost>>

\* ---------------------------------------------------- detached writes
\* a write whose goroutine is never started
LaunchCreate_Dropped(rec) == UNCHANGED <<ledger, pending, lost>>

\* go bcconnector.CreateCodeInfo(...) / go bcconnector.CreateTokenInfo(...):
\* the goroutine is started and not waited for
LaunchCreate(rec) ==
    /\ pending' = pending \cup {rec}
    /\ UNCHANGED <<ledger, lost>>

\* ------------------------------------------------------------ responses
NoResponse ==
    [ep |-> "none", status |-> 0, text |-> "", body |-> NoParams,
     loc |-> NilRequest, panic |-> FALSE, reads |-> {}, got |-> {},
     launched |-> {}, minted |-> "", req |-> NilRequest]

\* the /oauth/authorize handler of main(): an error returned by
\* HandleAuthorizeRequest is written with http.Error and status 400
AuthorizeResponse(r, out, minted, launched) ==
    [NoResponse EXCEPT !.ep = "authorize",
                       !.status = IF out.err # "" THEN 400 ELSE out.status,
                       !.text = out.err,
                       !.loc = out.loc,
                       !.minted = minted,
                       !.launched = launched,
                       !.req = r]

\* a handler that panicked: net/http drops the connection, nothing is sent
Panicked(endpoint, r, minted) ==
    [NoResponse EXCEPT !.ep = endpoint, !.panic = TRUE, !.minted = minted,
                       !.req = r]

\* ------------------------------------------------------------- requests
\* the end-to-end authorize request of the specification
BaseAuthorize ==
    [Method |-> "GET", client_id |-> idvar, response_type |-> "code",
     redirect_uri |-> domainvar \o "/auth", state |-> <<"xyz">>,
     scope |-> "all",
     ccLen |-> 0, code_challenge_method |-> "",
     LoggedInUserID |-> ""]

\* authorize requests of the whole-system specification
CoreAuthorizeRequests ==
    { BaseAuthorize, [BaseAuthorize EXCEPT !.Method = "PUT"] }

\* authorize requests of the authorize-endpoint specification
AuthorizeRequests ==
    { [BaseAuthorize EXCEPT !.response_type = rt, !.redirect_uri = uri] :
        rt \in {"code", "token"},
        uri \in {"", domainvar \o "/auth", "http://evil.example/cb", "%zz"} }
    \cup
    { [BaseAuthorize EXCEPT !.response_type = rt, !.client_id = "unknown"] :
        rt \in {"code", "token"} }
    \cup
    { [BaseAuthorize EXCEPT !.Method = "PUT"],
      [BaseAuthorize EXCEPT !.response_type = ""],
      [BaseAuthorize EXCEPT !.response_type = "id_token", !.redirect_uri = ""],
      [BaseAuthorize EXCEPT !.response_type = "token", !.ccLen = 42],
      [BaseAuthorize EXCEPT !.client_id = "", !.redirect_uri = ""],
      [BaseAuthorize EXCEPT !.LoggedInUserID = "000000"],
      [BaseAuthorize EXCEPT !.LoggedInUserID = "000000",
                            !.response_type = ""] }

\* a CodeInfo that is created as exchanged and linked to a token
NewCodeInfo_Exchanged(req, mHashV, now) ==
    [InfoType |-> "CodeInfo",
     ID_code |-> "CI_" \o mHashV,
     DID_RO |-> req.UserID,
     DID_client |-> req.ClientID,
     Scope |-> req.Scope,
     Hash_code |-> mHashV,
     Time_issueed |-> now,
     URI_Redirection |-> req.RedirectURI,
     Condition |-> "Exchanged",
     ID_token |-> "TI_" \o mHashV]

\* a CodeInfo that is linked to a token when it is created
NewCodeInfo_Linked(req, mHashV, now) ==
    [InfoType |-> "CodeInfo",
     ID_code |-> "CI_" \o mHashV,
     DID_RO |-> req.UserID,
     DID_client |-> req.ClientID,
     Scope |-> req.Scope,
     Hash_code |-> mHashV,
     Time_issueed |-> now,
     URI_Redirection |-> req.RedirectURI,
     Condition |-> "Available",
     ID_token |-> "TI_" \o mHashV]

\* the bcconnector.CodeInfo HandleAuthorizeRequest builds for the code with
\* hash mHashV at the instant now
NewCodeInfo(req, mHashV, now) ==
    [InfoType |-> "CodeInfo",
     ID_code |-> "CI_" \o mHashV,
     DID_RO |-> req.UserID,
     DID_client |-> req.ClientID,
     Scope |-> req.Scope,
     Hash_code |-> mHashV,
     Time_issueed |-> now,
     URI_Redirection |-> req.RedirectURI,
     Condition |-> "Available",
     ID_token |-> ""]

\* the owner the configured UserAuthorizationHandler returns: the user the
\* session of the request is logged in as
UserID_FromHandler(r) == r.LoggedInUserID

\* the owner HandleAuthorizeRequest puts in the request: the call of the
\* UserAuthorizationHandler is commented out and the owner is a constant
UserID(r) == "UserDID"

\* Server.HandleAuthorizeRequest, called by the /oauth/authorize handler
HandleAuthorizeRequest(r) ==
    LET v == ValidationAuthorizeRequest(Config, r)
        req == [v.req EXCEPT !.UserID = UserID(r)]
        gerr == GenerateAuthTokenErr(req)
        ti == GenerateAuthToken(req.ResponseType, req)
        req2 == IF req.RedirectURI = ""
                THEN [req EXCEPT !.RedirectURI = ClientDomain(req.ClientID)]
                ELSE req
        mAuthorizeData == GetAuthorizeData(req.ResponseType, ti)
        mCode == mAuthorizeData["code"]
        mHashV == genHashS256(mCode)
        mCodeInfo == NewCodeInfo(req2, mHashV, nCodes + 1)
    IN  IF v.err # ""
        THEN /\ resp' = AuthorizeResponse(r, redirectError(v.req, v.err), "", {})
             /\ UNCHANGED <<codes, tokens, nCodes, nTokens, ledger, pending,
                            lost>>
        ELSE IF gerr # ""
        THEN /\ resp' = AuthorizeResponse(r, redirectError(req, gerr), "", {})
             /\ UNCHANGED <<codes, tokens, nCodes, nTokens, ledger, pending,
                            lost>>
        ELSE IF req.ResponseType = "code"
        THEN /\ nCodes < MaxCodes
             /\ nCodes' = nCodes + 1
             /\ codes' = codes \cup {ti}
             /\ LaunchCreate(mCodeInfo)
             /\ resp' = AuthorizeResponse(r, redirect(req2, mAuthorizeData),
                                          ti.Code, {mCodeInfo})
             /\ UNCHANGED <<tokens, nTokens>>
        ELSE /\ nTokens < MaxTokens
             /\ nTokens' = nTokens + 1
             /\ tokens' = tokens \cup {ti}
             /\ IF "code" \notin DOMAIN mAuthorizeData
                THEN /\ resp' = Panicked("authorize", r, ti.Access)
                     /\ UNCHANGED <<ledger, pending, lost>>
                ELSE /\ LaunchCreate(mCodeInfo)
                     /\ resp' = AuthorizeResponse(r,
                                    redirect(req2, mAuthorizeData),
                                    ti.Access, {mCodeInfo})
             /\ UNCHANGED <<codes, nCodes>>

Authorize(requests) ==
    /\ \E r \in requests : HandleAuthorizeRequest(r)
    /\ UNCHANGED <<inflight, exchanged>>

\* ------------------------------------------------------ token endpoint
\* ClientBasicHandler: the client credentials of the request
ClientInfoHandler(r) ==
    IF r.client_id = "" THEN [err |-> "invalid_client", id |-> "", secret |-> ""]
    ELSE [err |-> "", id |-> r.client_id, secret |-> r.client_secret]

\* the handler main() installs with SetPasswordAuthorizationHandler
PasswordAuthorizationHandler(username, password) ==
    IF username = "test" /\ password = "test" THEN "test" ELSE ""

NoTGR ==
    [ClientID |-> "", ClientSecret |-> "", UserID |-> "", RedirectURI |-> "",
     Scope |-> "", Code |-> "", CodeVerifier |-> "", Refresh |-> ""]

\* ValidationTokenRequest that takes the empty answer of the password
\* handler for a user
ValidationTokenRequest_AnyPassword(cfg, r) ==
    LET fail(e) == [gt |-> "", tgr |-> NoTGR, err |-> e]
        ci == ClientInfoHandler(r)
        tgr == [NoTGR EXCEPT !.ClientID = ci.id, !.ClientSecret = ci.secret]
        gt == r.grant_type
    IN  IF ~(r.Method = "POST" \/ (cfg.AllowGetAccessRequest /\ r.Method = "GET"))
        THEN fail("invalid_request")
        ELSE IF gt = "" THEN fail("unsupported_grant_type")
        ELSE IF ci.err # "" THEN fail(ci.err)
        ELSE CASE gt = "authorization_code" ->
                    IF r.redirect_uri = "" \/ r.code = ""
                    THEN fail("invalid_request")
                    ELSE IF cfg.ForcePKCE /\ r.code_verifier = ""
                    THEN fail("invalid_request")
                    ELSE [gt |-> gt, err |-> "",
                          tgr |-> [tgr EXCEPT !.RedirectURI = r.redirect_uri,
                                              !.Code = r.code,
                                              !.CodeVerifier = r.code_verifier]]
               [] gt = "password" ->
                    IF r.username = "" \/ r.password = ""
                    THEN fail("invalid_request")
                    ELSE [gt |-> gt, err |-> "",
                          tgr |-> [tgr EXCEPT !.Scope = r.scope,
                                              !.UserID =
                                                PasswordAuthorizationHandler(
                                                    r.username, r.password)]]
               [] gt = "refresh_token" ->
                    IF r.refresh_token = "" THEN fail("invalid_request")
                    ELSE [gt |-> gt, err |-> "",
                          tgr |-> [tgr EXCEPT !.Refresh = r.refresh_token,
                                              !.Scope = r.scope]]
               [] OTHER -> [gt |-> gt, err |-> "",
                            tgr |-> [tgr EXCEPT !.Scope = r.scope]]

\* Server.ValidationTokenRequest
ValidationTokenRequest(cfg, r) ==
    LET fail(e) == [gt |-> "", tgr |-> NoTGR, err |-> e]
        ci == ClientInfoHandler(r)
        tgr == [NoTGR EXCEPT !.ClientID = ci.id, !.ClientSecret = ci.secret]
        userID == PasswordAuthorizationHandler(r.username, r.password)
        gt == r.grant_type
    IN  IF ~(r.Method = "POST" \/ (cfg.AllowGetAccessRequest /\ r.Method = "GET"))
        THEN fail("invalid_request")
        ELSE IF gt = "" THEN fail("unsupported_grant_type")
        ELSE IF ci.err # "" THEN fail(ci.err)
        ELSE CASE gt = "authorization_code" ->
                    IF r.redirect_uri = "" \/ r.code = ""
                    THEN fail("invalid_request")
                    ELSE IF cfg.ForcePKCE /\ r.code_verifier = ""
                    THEN fail("invalid_request")
                    ELSE [gt |-> gt, err |-> "",
                          tgr |-> [tgr EXCEPT !.RedirectURI = r.redirect_uri,
                                              !.Code = r.code,
                                              !.CodeVerifier = r.code_verifier]]
               [] gt = "password" ->
                    IF r.username = "" \/ r.password = ""
                    THEN fail("invalid_request")
                    ELSE IF userID = "" THEN fail("invalid_grant")
                    ELSE [gt |-> gt, err |-> "",
                          tgr |-> [tgr EXCEPT !.Scope = r.scope,
                                              !.UserID = userID]]
               [] gt = "client_credentials" ->
                    [gt |-> gt, err |-> "",
                     tgr |-> [tgr EXCEPT !.Scope = r.scope]]
               [] gt = "refresh_token" ->
                    IF r.refresh_token = "" THEN fail("invalid_request")
                    ELSE [gt |-> gt, err |-> "",
                          tgr |-> [tgr EXCEPT !.Refresh = r.refresh_token,
                                              !.Scope = r.scope]]
               [] OTHER -> [gt |-> gt, tgr |-> tgr, err |-> ""]

\* CheckGrantType that allows every grant type
CheckGrantType_Any(cfg, gt) == TRUE

\* Server.CheckGrantType
CheckGrantType(cfg, gt) == gt \in cfg.AllowedGrantTypes

\* the live authorization code the grant store holds for a request, if any:
\* the code must exist and belong to the client and the redirect URI
LiveCode(tgr) ==
    { c \in codes : /\ c.Code = tgr.Code
                    /\ c.ClientID = tgr.ClientID
                    /\ (c.RedirectURI = "" \/ c.RedirectURI = tgr.RedirectURI) }

\* the live refresh token the grant store holds for a request, if any
LiveRefresh(tgr) ==
    { t \in tokens : t.Refresh # "" /\ t.Refresh = tgr.Refresh }

\* the code verifier that answers the code challenge of n characters
VerifierOf(n) == "v" \o ToString(n)

\* the PKCE verification of the grant store: the verifier presented with a
\* code against the challenge the code was issued for, "" when it passes
ValidateCodeChallenge(ti, ver) ==
    IF ti.ccLen = 0 /\ ver = "" THEN ""
    ELSE IF ti.ccLen = 0 THEN ErrMissingCodeChallenge
    ELSE IF ver = "" THEN ErrMissingCodeVerifier
    ELSE IF ver # VerifierOf(ti.ccLen) THEN ErrInvalidCodeChallenge
    ELSE ""

\* Manager.GenerateAccessToken / Manager.RefreshAccessToken: the error the
\* grant store answers, "" when it issues a token
ManagerErr(gt, tgr) ==
    LET cli == { c \in clientStore : c.ID = tgr.ClientID }
    IN  IF gt = "refresh_token"
        THEN IF LiveRefresh(tgr) = {} THEN ErrInvalidRefreshToken ELSE ""
        ELSE IF cli = {} \/ \A c \in cli : c.Secret # tgr.ClientSecret
        THEN "invalid_client"
        ELSE IF gt = "authorization_code" /\ LiveCode(tgr) = {}
        THEN ErrInvalidAuthorizeCode
        ELSE IF gt = "authorization_code"
        THEN ValidateCodeChallenge(CHOOSE c \in LiveCode(tgr) : TRUE,
                                   tgr.CodeVerifier)
        ELSE ""

\* Manager.GenerateAccessToken / Manager.RefreshAccessToken: the token
\* information issued when ManagerErr is ""
ManagerToken(gt, tgr) ==
    LET fresh == [NoToken EXCEPT !.ClientID = tgr.ClientID,
                                 !.UserID = tgr.UserID,
                                 !.Scope = tgr.Scope,
                                 !.Access = AccessOf(nTokens + 1),
                                 !.AccessCreateAt = nTokens + 1,
                                 !.AccessExpiresIn = 7200]
        code == CHOOSE c \in LiveCode(tgr) : TRUE
        old == CHOOSE t \in LiveRefresh(tgr) : TRUE
    IN  CASE gt = "authorization_code" ->
                [fresh EXCEPT !.UserID = code.UserID, !.Scope = code.Scope,
                              !.RedirectURI = code.RedirectURI,
                              !.Code = code.Code,
                              !.Refresh = RefreshOf(nTokens + 1)]
          [] gt = "password" -> [fresh EXCEPT !.Refresh = RefreshOf(nTokens + 1)]
          [] gt = "refresh_token" ->
                [old EXCEPT !.Access = AccessOf(nTokens + 1),
                            !.AccessCreateAt = nTokens + 1]
          [] OTHER -> fresh

\* GetAccessToken that hands the grant store's error through unmapped
GetAccessToken_Unmapped(cfg, gt, merr) ==
    IF ~CheckGrantType(cfg, gt) THEN "unauthorized_client" ELSE merr

\* Server.GetAccessToken: the error returned to HandleTokenRequest for the
\* error merr of the grant store (no ClientAuthorizedHandler,
\* ClientScopeHandler or refreshing handler is installed)
GetAccessToken(cfg, gt, merr) ==
    IF ~CheckGrantType(cfg, gt) THEN "unauthorized_client"
    ELSE CASE gt = "authorization_code" ->
                IF merr \in {ErrInvalidAuthorizeCode, ErrInvalidCodeChallenge,
                             ErrMissingCodeChallenge, ErrMissingCodeChallenge}
                THEN "invalid_grant"
                ELSE merr
           [] gt \in {"password", "client_credentials"} -> merr
           [] gt = "refresh_token" ->
                IF merr \in {ErrInvalidRefreshToken, ErrExpiredRefreshToken}
                THEN "invalid_grant"
                ELSE merr
           [] OTHER -> "unsupported_grant_type"

\* Server.tokenError / Server.token: the JSON response of the token endpoint
TokenResponse(r, status, data) ==
    [NoResponse EXCEPT !.ep = "token", !.status = status, !.body = data,
                       !.req = r]

tokenError(r, err) ==
    LET e == GetErrorData(err)
    IN  TokenResponse(r, e.statusCode, e.data)

BaseToken ==
    [Method |-> "POST", grant_type |-> "authorization_code",
     client_id |-> idvar, client_secret |-> secretvar,
     redirect_uri |-> domainvar \o "/auth", code |-> CodeOf(1),
     username |-> "", password |-> "", refresh_token |-> "", scope |-> "",
     code_verifier |-> ""]

TokenRequests ==
    { [BaseToken EXCEPT !.code = c] :
        c \in { CodeOf(n) : n \in 1..MaxCodes } \cup {"bogus", ""} }
    \cup
    { [BaseToken EXCEPT !.grant_type = "refresh_token", !.code = "",
                        !.refresh_token = t] :
        t \in { RefreshOf(n) : n \in 1..MaxTokens } \cup {"bogus", ""} }
    \cup
    { [BaseToken EXCEPT !.grant_type = "password", !.code = "",
                        !.username = "test", !.password = pw] :
        pw \in {"test", "wrong", ""} }
    \cup
    { [BaseToken EXCEPT !.grant_type = gt, !.code = ""] :
        gt \in {"client_credentials", "implicit", ""} }
    \cup
    { [BaseToken EXCEPT !.redirect_uri = "http://evil.example/cb"],
      [BaseToken EXCEPT !.client_secret = "wrong"],
      [BaseToken EXCEPT !.client_id = ""],
      [BaseToken EXCEPT !.Method = "GET"] }

\* the token requests of the authorization-code flow
CodeTokenRequests ==
    { r \in TokenRequests : r.grant_type = "authorization_code" }

\* Server.HandleTokenRequest up to the return of GetAccessToken: validation,
\* then the grant store consumes the code (or refresh token) and issues the
\* token in one atomic step
TokenBegin(r) ==
    LET v == ValidationTokenRequest(Config, r)
        merr == IF CheckGrantType(Config, v.gt) THEN ManagerErr(v.gt, v.tgr)
                ELSE ""
        err == GetAccessToken(Config, v.gt, merr)
        ti == ManagerToken(v.gt, v.tgr)
    IN  IF v.err # ""
        THEN /\ resp' = tokenError(r, v.err)
             /\ UNCHANGED <<codes, tokens, nTokens, inflight>>
        ELSE IF err # ""
        THEN /\ resp' = tokenError(r, err)
             /\ UNCHANGED <<codes, tokens, nTokens, inflight>>
        ELSE /\ nTokens < MaxTokens
             /\ nTokens' = nTokens + 1
             /\ codes' = IF v.gt = "authorization_code"
                         THEN codes \ LiveCode(v.tgr) ELSE codes
             /\ tokens' = IF v.gt = "refresh_token"
                          THEN (tokens \ LiveRefresh(v.tgr)) \cup {ti}
                          ELSE tokens \cup {ti}
             /\ inflight' = inflight \cup {[r |-> r, gt |-> v.gt,
                                            tgr |-> v.tgr, ti |-> ti]}
             /\ UNCHANGED resp

\* a TokenInfo that is keyed by the hash of the code it was exchanged for
NewTokenInfo_CodeKeyed(ti, tgr, mCodeInfo, mTHashV) ==
    [InfoType |-> "TokenInfo",
     ID_token |-> "TI_" \o genHashS256(tgr.Code),
     DID_RO |-> mCodeInfo.DID_RO,
     DID_client |-> mCodeInfo.DID_client,
     Scope |-> mCodeInfo.Scope,
     Hash_token |-> mTHashV,
     Time_issueed |-> ti.AccessCreateAt,
     Time_expiration |-> ti.AccessCreateAt,
     URI_Redirection |-> tgr.RedirectURI,
     Condition |-> "Available"]

\* a TokenInfo that is created with the status of an exchanged code
NewTokenInfo_Exchanged(ti, tgr, mCodeInfo, mTHashV) ==
    [InfoType |-> "TokenInfo",
     ID_token |-> "TI_" \o mTHashV,
     DID_RO |-> mCodeInfo.DID_RO,
     DID_client |-> mCodeInfo.DID_client,
     Scope |-> mCodeInfo.Scope,
     Hash_token |-> mTHashV,
     Time_issueed |-> ti.AccessCreateAt,
     Time_expiration |-> ti.AccessCreateAt,
     URI_Redirection |-> tgr.RedirectURI,
     Condition |-> "Exchanged"]

\* a TokenInfo that expires when the lifetime of the token has passed
NewTokenInfo_Expiring(ti, tgr, mCodeInfo, mTHashV) ==
    [InfoType |-> "TokenInfo",
     ID_token |-> "TI_" \o mTHashV,
     DID_RO |-> mCodeInfo.DID_RO,
     DID_client |-> mCodeInfo.DID_client,
     Scope |-> mCodeInfo.Scope,
     Hash_token |-> mTHashV,
     Time_issueed |-> ti.AccessCreateAt,
     Time_expiration |-> ti.AccessCreateAt + ti.AccessExpiresIn,
     URI_Redirection |-> tgr.RedirectURI,
     Condition |-> "Available"]

\* the bcconnector.TokenInfo HandleTokenRequest builds for the token ti with
\* hash mTHashV from the CodeInfo it read
NewTokenInfo(ti, tgr, mCodeInfo, mTHashV) ==
    [InfoType |-> "TokenInfo",
     ID_token |-> "TI_" \o mTHashV,
     DID_RO |-> mCodeInfo.DID_RO,
     DID_client |-> mCodeInfo.DID_client,
     Scope |-> mCodeInfo.Scope,
     Hash_token |-> mTHashV,
     Time_issueed |-> ti.AccessCreateAt,
     Time_expiration |-> ti.AccessCreateAt,
     URI_Redirection |-> tgr.RedirectURI,
     Condition |-> "Available"]

\* Server.HandleTokenRequest after GetAccessToken returned a token: the
\* synchronous ReadCodeInfo, the TokenInfo, its detached write, the response
TokenFinish(f, reachable) ==
    LET tgr == f.tgr
        ti == f.ti
        mCHashV == genHashS256(tgr.Code)
        mCID == "CI_" \o mCHashV
        mCodeInfo == ReadCodeInfo(mCID, reachable)
        mToken == ti.Access
        mTHashV == genHashS256(mToken)
        mTokenInfo == NewTokenInfo(ti, tgr, mCodeInfo, mTHashV)
    IN  /\ LaunchCreate(mTokenInfo)
        /\ resp' = [TokenResponse(f.r, 200, GetTokenData(ti))
                        EXCEPT !.reads = {mCID}, !.got = {mCodeInfo},
                               !.launched = {mTokenInfo}, !.minted = mToken]
        /\ exchanged' = IF f.gt = "authorization_code"
                        THEN exchanged \cup {<<tgr.Code, mToken>>}
                        ELSE exchanged
        /\ inflight' = inflight \ {f}

\* the /oauth/token handler receives the request r
TokenArrives(r) ==
    /\ TokenBegin(r)
    /\ UNCHANGED <<nCodes, ledger, pending, lost, exchanged>>

\* the /oauth/token handler of a request that was given a token runs on to
\* its response
TokenReturns ==
    /\ \E f \in inflight : \E reachable \in BOOLEAN :
         TokenFinish(f, reachable)
    /\ UNCHANGED <<codes, tokens, nCodes, nTokens>>

Token(requests) ==
    \/ \E r \in requests : TokenArrives(r)
    \/ TokenReturns

\* ------------------------------------------------ protected resource
\* Server.BearerAuth; the Authorization header is the text scheme \o cred
BearerAuth(r) ==
    LET auth == r.scheme \o r.cred
        token == IF auth # "" /\ r.scheme = "Bearer " THEN r.cred
                 ELSE r.access_token
    IN  [token |-> token, ok |-> token # ""]

\* LoadAccessTokeninBAS without the comparison of the stored hash
LoadAccessTokeninBAS_NoCheck(accessToken, reachable) ==
    LET mTID == "TI_" \o genHashS256(accessToken)
    IN  [err |-> "", reads |-> {mTID},
         got |-> {ReadTokenInfo(mTID, reachable)}]

\* LoadAccessTokeninBAS that reads the record under the raw token
LoadAccessTokeninBAS_RawKey(accessToken, reachable) ==
    LET mTHashV == genHashS256(accessToken)
        mTID == "TI_" \o accessToken
        mTokenInfo == ReadTokenInfo(mTID, reachable)
    IN  [err |-> IF mTokenInfo.Hash_token # mTHashV
                 THEN ErrInvalidAccessToken ELSE "",
         reads |-> {mTID}, got |-> {mTokenInfo}]

\* LoadAccessTokeninBAS that accepts only a record that is Available
LoadAccessTokeninBAS_Available(accessToken, reachable) ==
    LET mTHashV == genHashS256(accessToken)
        mTID == "TI_" \o mTHashV
        mTokenInfo == ReadTokenInfo(mTID, reachable)
    IN  [err |-> IF \/ mTokenInfo.Hash_token # mTHashV
                    \/ mTokenInfo.Condition # "Available"
                 THEN ErrInvalidAccessToken ELSE "",
         reads |-> {mTID}, got |-> {mTokenInfo}]

\* Server.LoadAccessTokeninBAS
LoadAccessTokeninBAS(accessToken, reachable) ==
    LET mTHashV == genHashS256(accessToken)
        mTID == "TI_" \o mTHashV
        mTokenInfo == ReadTokenInfo(mTID, reachable)
    IN  [err |-> IF mTokenInfo.Hash_token # mTHashV
                 THEN ErrInvalidAccessToken ELSE "",
         reads |-> {mTID}, got |-> {mTokenInfo}]

\* ValidationBearerToken that ignores BearerAuth's ok result
ValidationBearerToken_NoOk(r, reachable) ==
    LoadAccessTokeninBAS(BearerAuth(r).token, reachable)

\* Server.ValidationBearerToken
ValidationBearerToken(r, reachable) ==
    LET b == BearerAuth(r)
    IN  IF ~b.ok THEN [err |-> ErrInvalidAccessToken, reads |-> {}, got |-> {}]
        ELSE LoadAccessTokeninBAS(b.token, reachable)

BearerRequests ==
    { [scheme |-> "Bearer ", cred |-> t, access_token |-> ""] :
        t \in { AccessOf(n) : n \in 1..MaxTokens } \cup {"wrong", ""} }
    \cup
    { [scheme |-> "", cred |-> "", access_token |-> t] :
        t \in {AccessOf(1), ""} }
    \cup
    { [scheme |-> "Basic ", cred |-> "dXNlcg==", access_token |-> AccessOf(1)],
      [scheme |-> "Basic ", cred |-> "dXNlcg==", access_token |-> ""],
      [scheme |-> "Bearer ", cred |-> "", access_token |-> AccessOf(1)] }

\* a /test handler that uses up the token record it accepted
Test_SingleUse ==
    /\ \E r \in BearerRequests : \E reachable \in BOOLEAN :
         LET v == ValidationBearerToken(r, reachable)
         IN  /\ resp' = [NoResponse EXCEPT
                          !.ep = "test",
                          !.status = IF v.err # "" THEN 400 ELSE 200,
                          !.text = v.err,
                          !.body = IF v.err # "" THEN NoParams
                                   ELSE ("photo_1" :> "Character:PNG:97KB:600*320"),
                          !.reads = v.reads, !.got = v.got, !.req = r]
             /\ ledger' = IF v.err = "" THEN ledger \ v.got ELSE ledger
    /\ UNCHANGED <<codes, tokens, nCodes, nTokens, pending, lost,
                   inflight, exchanged>>

\* the /test handler of main() on the request r, the ledger reachable or not
TestRequest(r, reachable) ==
    LET v == ValidationBearerToken(r, reachable)
    IN  /\ resp' = [NoResponse EXCEPT
                      !.ep = "test",
                      !.status = IF v.err # "" THEN 400 ELSE 200,
                      !.text = v.err,
                      !.body = IF v.err # "" THEN NoParams
                               ELSE ("photo_1" :> "Character:PNG:97KB:600*320"),
                      !.reads = v.reads, !.got = v.got, !.req = r]
        /\ UNCHANGED <<codes, tokens, nCodes, nTokens, ledger, pending, lost,
                       inflight, exchanged>>

\* the /test handler of main()
Test == \E r \in BearerRequests : \E reachable \in BOOLEAN :
            TestRequest(r, reachable)

\* ------------------------------------------------------------ the ledger
\* a detached write reaches the ledger and becomes visible
WriteLands ==
    \E rec \in pending :
        /\ pending' = pending \ {rec}
        /\ ledger' = ledger \cup {rec}
        /\ UNCHANGED <<codes, tokens, nCodes, nTokens, lost, inflight,
                       exchanged, resp>>

\* a detached write fails: the failure is logged, nothing else happens
WriteFails ==
    \E rec \in pending :
        /\ pending' = pending \ {rec}
        /\ lost' = lost \cup {rec}
        /\ UNCHANGED <<codes, tokens, nCodes, nTokens, ledger, inflight,
                       exchanged, resp>>

Init ==
    /\ codes = {}
    /\ tokens = {}
    /\ nCodes = 0
    /\ nTokens = 0
    /\ ledger = {}
    /\ pending = {}
    /\ lost = {}
    /\ inflight = {}
    /\ exchanged = {}
    /\ resp = NoResponse

\* the authorize endpoint alone, over the wider set of authorize requests
NextAuthorize ==
    \/ Authorize(AuthorizeRequests)
    \/ WriteLands
    \/ WriteFails

SpecAuthorize == Init /\ [][NextAuthorize]_vars

\* the authorization-code flow alone: authorize, exchange, protected resource
NextCodeFlow ==
    \/ Authorize(CoreAuthorizeRequests)
    \/ Token(CodeTokenRequests)
    \/ Test
    \/ WriteLands
    \/ WriteFails

SpecCodeFlow == Init /\ [][NextCodeFlow]_vars

\* token requests whose grant type the configuration does not allow
DisallowedTokenRequests ==
    { [BaseToken EXCEPT !.grant_type = gt, !.code = c, !.Method = m] :
        gt \in {"implicit", "urn:example:custom"},
        c \in {"", CodeOf(1)},
        m \in {"POST", "GET"} }
    \cup
    { [BaseToken EXCEPT !.grant_type = "implicit", !.client_id = ""] }

\* the authorization-code flow with token requests of disallowed grant types
NextDisallowed ==
    \/ Authorize(CoreAuthorizeRequests)
    \/ Token(CodeTokenRequests \cup DisallowedTokenRequests)
    \/ WriteLands
    \/ WriteFails

SpecDisallowed == Init /\ [][NextDisallowed]_vars

\* authorize requests with and without a code challenge
PKCEAuthorizeRequests ==
    { [BaseAuthorize EXCEPT !.ccLen = n, !.code_challenge_method = m] :
        n \in {0, 43}, m \in {"", "S256"} }

\* token requests with the right, a wrong and no code verifier
PKCETokenRequests ==
    { [BaseToken EXCEPT !.code = c, !.code_verifier = ver] :
        c \in { CodeOf(n) : n \in 1..MaxCodes } \cup {"bogus"},
        ver \in {"", VerifierOf(43), "other"} }
    \cup
    { [BaseToken EXCEPT !.client_secret = "wrong"] }
    \cup
    { [BaseToken EXCEPT !.grant_type = "refresh_token", !.code = "",
                        !.refresh_token = t] :
        t \in {RefreshOf(1), "bogus"} }

\* the authorization-code flow with PKCE
NextPKCE ==
    \/ Authorize(PKCEAuthorizeRequests)
    \/ Token(PKCETokenRequests)
    \/ WriteLands
    \/ WriteFails

SpecPKCE == Init /\ [][NextPKCE]_vars

\* ---------------------------------------------- the functions, called
\* the state parameters of the authorize requests: texts of words and of
\* the characters the encodings treat specially
StateAtoms == {"a", "&", "+", " ", "="}

States == UNION { [1..n -> StateAtoms] : n \in 0..MaxStateLen }

\* the calls of GetRedirectURI that HandleAuthorizeRequest makes: with the
\* code it issued, or through redirectError with the error of an issuance
\* that failed
RedirectCalls ==
    { [req |-> ValidationAuthorizeRequest(Config,
                   [BaseAuthorize EXCEPT !.state = s]).req,
       data |-> GetAuthorizeData("code", [NoToken EXCEPT !.Code = CodeOf(n)])] :
        s \in States, n \in 1..MaxCodes }
    \cup
    { [req |-> ValidationAuthorizeRequest(Config,
                   [BaseAuthorize EXCEPT !.state = s, !.response_type = rt,
                                         !.redirect_uri = uri,
                                         !.client_id = "unknown"]).req,
       data |-> GetErrorData("invalid_client").data] :
        s \in States, rt \in {"code", "token"},
        uri \in {domainvar \o "/auth", "%zz"} }
    \cup
    { [req |-> ValidationAuthorizeRequest(Config,
                   [BaseAuthorize EXCEPT !.state = s, !.response_type = rt,
                                         !.redirect_uri = uri]).req,
       data |-> GetErrorData(ErrInvalidRedirectURI).data] :
        s \in States, rt \in {"code", "token"},
        uri \in {"http://evil.example/cb", "%zz"} }

\* a function is called, once, in the state after construction: resp keeps
\* the configuration, the arguments and the result of the call
Called(fn, cfg, args, out) ==
    /\ resp = NoResponse
    /\ resp' = [ep |-> fn, cfg |-> cfg, req |-> args, out |-> out]
    /\ UNCHANGED <<codes, tokens, nCodes, nTokens, ledger, pending, lost,
                   inflight, exchanged>>

\* one call of Server.GetRedirectURI
CallGetRedirectURI ==
    \E c \in RedirectCalls :
        Called("GetRedirectURI", Config, c, GetRedirectURI(c.req, c.data))

\* the configurations: server.NewConfig() with PKCE mandated or not and
\* GET allowed on the token endpoint or not
Configs ==
    { [Config EXCEPT !.ForcePKCE = f, !.AllowGetAccessRequest = g] :
        f \in BOOLEAN, g \in BOOLEAN }

\* authorize requests around the limits of the code challenge length
ChallengeRequests ==
    { [BaseAuthorize EXCEPT !.ccLen = n, !.code_challenge_method = m,
                            !.response_type = rt, !.Method = meth] :
        n \in {0, 1, 42, 43, 44, 127, 128, 129},
        m \in {"", "plain", "S256", "S512"},
        rt \in {"code", "token"},
        meth \in {"GET", "PUT"} }

\* one call of Server.ValidationAuthorizeRequest
CallValidationAuthorizeRequest ==
    \E cfg \in Configs : \E r \in ChallengeRequests :
        Called("ValidationAuthorizeRequest", cfg, r,
               ValidationAuthorizeRequest(cfg, r))

\* token requests with each required parameter present or missing
TableRequests ==
    { [BaseToken EXCEPT !.redirect_uri = uri, !.code = c,
                        !.code_verifier = ver, !.Method = meth,
                        !.client_id = id] :
        uri \in {"", domainvar \o "/auth"}, c \in {"", CodeOf(1)},
        ver \in {"", "verifier"}, meth \in {"POST", "GET", "PUT"},
        id \in {"", idvar} }
    \cup
    { [BaseToken EXCEPT !.grant_type = "password", !.code = "",
                        !.redirect_uri = "", !.username = u, !.password = pw,
                        !.Method = meth, !.client_id = id] :
        u \in {"", "test"}, pw \in {"", "test", "wrong"},
        meth \in {"POST", "GET", "PUT"}, id \in {"", idvar} }
    \cup
    { [BaseToken EXCEPT !.grant_type = gt, !.code = "", !.redirect_uri = "",
                        !.refresh_token = t, !.Method = meth,
                        !.client_id = id] :
        gt \in {"refresh_token", "client_credentials", ""},
        t \in {"", RefreshOf(1)}, meth \in {"POST", "GET", "PUT"},
        id \in {"", idvar} }

\* one call of Server.ValidationTokenRequest
CallValidationTokenRequest ==
    \E cfg \in Configs : \E r \in TableRequests :
        Called("ValidationTokenRequest", cfg, r,
               ValidationTokenRequest(cfg, r))

NextCalls ==
    \/ CallGetRedirectURI
    \/ CallValidationAuthorizeRequest
    \/ CallValidationTokenRequest

SpecCalls == Init /\ [][NextCalls]_vars

\* the ledger retires a TokenRecord: its status moves from Available to
\* Expired or Revoked, nothing else changes
LedgerRetires ==
    \E rec \in ledger : \E status \in {"Expired", "Revoked"} :
        /\ rec.InfoType = "TokenInfo"
        /\ rec.Condition = "Available"
        /\ ledger' = (ledger \ {rec}) \cup {[rec EXCEPT !.Condition = status]}
        /\ UNCHANGED <<codes, tokens, nCodes, nTokens, pending, lost,
                       inflight, exchanged, resp>>

\* the token requests of a client that exchanges its code and refreshes
BearerTokenRequests ==
    { BaseToken,
      [BaseToken EXCEPT !.grant_type = "refresh_token", !.code = "",
                        !.refresh_token = RefreshOf(1)] }

\* the protected resource over the life of a token: issue, refresh, retire
NextBearer ==
    \/ Authorize({BaseAuthorize})
    \/ Token(BearerTokenRequests)
    \/ Test
    \/ WriteLands
    \/ WriteFails
    \/ LedgerRetires

SpecBearer == Init /\ [][NextBearer]_vars

\* the token request that presents the n-th code
ExchangeOf(n) == [BaseToken EXCEPT !.code = CodeOf(n)]

\* the resource request that bears the n-th access token
BearerOf(n) == [scheme |-> "Bearer ", cred |-> AccessOf(n), access_token |-> ""]

\* the authorization-code flow with a ledger that acknowledges every write
NextLive ==
    \/ Authorize({BaseAuthorize})
    \/ Token(CodeTokenRequests)
    \/ Test
    \/ WriteLands

\* the client presents the n-th code while the grant store holds it
PresentsCode(n) ==
    /\ \E c \in codes : c.Code = CodeOf(n)
    /\ TokenArrives(ExchangeOf(n))

\* the client bears the n-th access token when its record has landed and
\* the ledger can be reached
BearsToken(n) ==
    /\ \E t \in ledger : t.InfoType = "TokenInfo" /\
                          t.ID_token = TokenID(AccessOf(n))
    /\ TestRequest(BearerOf(n), TRUE)

\* the scheduler runs every started goroutine and every handler to its end,
\* the ledger is reachable again and again, and the client presents the code
\* and the token it was given until it is answered
Fairness ==
    /\ WF_vars(WriteLands)
    /\ WF_vars(TokenReturns)
    /\ \A n \in 1..MaxCodes : WF_vars(PresentsCode(n))
    /\ \A n \in 1..MaxCodes : WF_vars(BearsToken(n))

SpecLive == Init /\ [][NextLive]_vars /\ Fairness

\* the whole system: every endpoint, every grant type
Next ==
    \/ Authorize(CoreAuthorizeRequests)
    \/ Token(TokenRequests)
    \/ Test
    \/ WriteLands
    \/ WriteFails

Spec == Init /\ [][Next]_vars

\* ================================================================ claims
\* the parameters the receiver of a redirect reads from its query string
QueryOf(loc) == ParseQuery(loc.RawQuery)

\* the parameters the receiver of a redirect reads from its fragment
FragmentOf(loc) == ParseQuery(EscapedFragment(loc.Fragment))

IsTokenResp == resp.ep = "token"

IsAuthCodeResp == IsTokenResp /\ resp.req.grant_type = "authorization_code"

RespError == IF "error" \in DOMAIN resp.body THEN resp.body["error"] ELSE ""

RespAccess ==
    IF "access_token" \in DOMAIN resp.body THEN resp.body["access_token"]
    ELSE ""

InvalidGrantAnswer ==
    /\ resp.status = 400
    /\ RespError = "invalid_grant"
    /\ RespAccess = ""

\* every record ever handed to a detached write
submitted == ledger \cup pending \cup lost

\* C1: an authorization_code token request whose ReadCodeRecord returned no
\* record is answered invalid_grant without an access token, never with a
\* crash or a 500.
C1_MissingRecordInvalidGrant ==
    (IsAuthCodeResp /\ resp.reads # {} /\ resp.got = {ZeroCodeInfo})
        => (InvalidGrantAnswer /\ ~resp.panic /\ resp.status # 500)

\* C2: an authorization_code token request whose returned CodeRecord stores a
\* hash different from the hash of the presented code is answered
\* invalid_grant and returns no access token.
C2_HashMismatchInvalidGrant ==
    (IsAuthCodeResp /\
     \E rec \in resp.got : rec.Hash_code # genHashS256(resp.req.code))
        => InvalidGrantAnswer

\* the requests that hold or have held the code: in flight after the grant
\* store consumed it, or answered with a token
Holders(code) ==
    { f.ti.Access : f \in { g \in inflight : g.gt = "authorization_code" /\
                                             g.tgr.Code = code } }
    \cup { p[2] : p \in { q \in exchanged : q[1] = code } }

C4_BearerIffHashMatch ==
    resp.ep = "test" =>
        LET b == BearerAuth(resp.req)
            match == /\ b.ok
                     /\ resp.reads = {TokenID(b.token)}
                     /\ \E rec \in resp.got :
                            rec.Hash_token = genHashS256(b.token)
        IN  /\ (resp.status = 200) <=> match
            /\ ~match => (resp.status = 400 /\ resp.text = ErrInvalidAccessToken)
            /\ (resp.got = {ZeroTokenInfo}) => resp.status = 400
            /\ (resp.status = 200) =>
                 \E rec \in ledger : /\ rec.InfoType = "TokenInfo"
                                     /\ rec.ID_token = TokenID(b.token)

C4_Witness ==
    /\ resp.ep = "test"
    /\ resp.status = 200
    /\ resp.req.scheme = "Bearer "
    /\ resp.req.cred = AccessOf(1)

\* C5: a resource request with neither a non-empty Bearer token in the
\* Authorization header nor a non-empty access_token form parameter is
\* answered invalid_access_token without a ledger read; when the header lacks
\* the Bearer prefix the token is the access_token form parameter.
C5_NoTokenNoRead ==
    resp.ep = "test" =>
        LET r == resp.req
            bearerHeader == r.scheme = "Bearer " /\ r.cred # ""
        IN  /\ (~bearerHeader /\ r.access_token = "") =>
                 /\ resp.status = 400
                 /\ resp.text = ErrInvalidAccessToken
                 /\ resp.reads = {}
            /\ (r.scheme # "Bearer " /\ r.access_token # "") =>
                 resp.reads = {TokenID(r.access_token)}

C5_Witness ==
    /\ resp.ep = "test"
    /\ resp.req.scheme = "Basic "
    /\ resp.req.access_token = AccessOf(1)
    /\ resp.status = 200

\* C6: an authorize request that passes validation and for which the grant
\* store minted a code or an implicit token is answered with a 302 redirect
\* carrying the issued secret; the handler does not abort after issuance.
C6_IssuedAlwaysRedirects ==
    (resp.ep = "authorize" /\ resp.minted # "") =>
        /\ ~resp.panic
        /\ resp.status = 302
        /\ \/ /\ resp.req.response_type = "code"
              /\ "code" \in DOMAIN QueryOf(resp.loc)
              /\ QueryOf(resp.loc)["code"] = <<resp.minted>>
           \/ /\ resp.req.response_type = "token"
              /\ "access_token" \in DOMAIN FragmentOf(resp.loc)
              /\ FragmentOf(resp.loc)["access_token"] = <<resp.minted>>

\* the error parameters are where a success of the response type puts its
\* parameters
ErrorIn(loc, rt) ==
    LET keys == {"error", "error_description"}
    IN  CASE rt = "code" -> keys \subseteq DOMAIN QueryOf(loc)
          [] rt = "token" -> /\ keys \subseteq DOMAIN FragmentOf(loc)
                             /\ loc.RawQuery = <<>>
          [] OTHER -> \/ keys \subseteq DOMAIN QueryOf(loc)
                      \/ keys \subseteq DOMAIN FragmentOf(loc)

\* a redirect URI can be resolved for the request
Resolvable(r) ==
    /\ urlParse(r.redirect_uri).ok
    /\ r.redirect_uri # "" \/ \E c \in clientStore : c.ID = r.client_id

FailedAuthorize == resp.ep = "authorize" /\ resp.minted = "" /\ ~resp.panic

\* C7 as claimed: every failed authorize request is answered with a 302
\* redirect carrying error and error_description where a success would put
\* its parameters when a redirect URI is resolvable, with 400 otherwise.
C7_FailureRedirectsWhenResolvable ==
    FailedAuthorize =>
        IF Resolvable(resp.req)
        THEN resp.status = 302 /\ ErrorIn(resp.loc, resp.req.response_type)
        ELSE resp.status = 400

\* C7 as amended: an authorize request that fails validation is answered
\* 400 with the error text and no redirect, whatever redirect URI it has; an
\* issuance failure is answered with a 302 redirect carrying error and
\* error_description in the query (code) or the fragment (token) when the
\* request's redirect_uri parses, and with 400 when it does not.
C7_FailureAnswer ==
    FailedAuthorize =>
        LET bad == ValidationAuthorizeRequest(Config, resp.req).err
        IN  IF bad # ""
            THEN resp.status = 400 /\ resp.text = bad /\ resp.loc = NilRequest
            ELSE IF urlParse(resp.req.redirect_uri).ok
            THEN /\ resp.status = 302
                 /\ resp.loc.base = resp.req.redirect_uri
                 /\ ErrorIn(resp.loc, resp.req.response_type)
            ELSE resp.status = 400 /\ resp.loc = NilRequest

C7_Witness ==
    /\ FailedAuthorize
    /\ resp.status = 302
    /\ resp.req.response_type = "token"
    /\ "error" \in DOMAIN FragmentOf(resp.loc)

\* C8: a response is written while the ledger write its request launched is
\* still running and without any record having reached the ledger in that
\* step, and the completion of a write, landed or failed, changes no
\* response.
C8_WritesDetached ==
    [][ /\ (resp' # resp) =>
             /\ resp'.launched \subseteq pending'
             /\ ledger' = ledger
             /\ lost' = lost
             /\ resp'.launched # {} => resp'.status \in {200, 302}
        /\ (pending' # pending /\ pending' \subseteq pending) => resp' = resp
      ]_vars

\* a successful response whose ledger write failed afterwards
C8_Witness ==
    /\ resp.launched # {}
    /\ resp.launched \subseteq lost
    /\ resp.status \in {200, 302}

\* C9: the TokenRecord submitted for a successful authorization_code exchange
\* has the owner DID, client DID and scope of the CodeRecord created when the
\* presented code was issued.
C9_TokenRecordFromCodeRecord ==
    (IsAuthCodeResp /\ resp.status = 200) =>
        \A w \in resp.launched :
            \E c \in submitted :
                /\ c.InfoType = "CodeInfo"
                /\ c.ID_code = CodeID(resp.req.code)
                /\ w.DID_RO = c.DID_RO
                /\ w.DID_client = c.DID_client
                /\ w.Scope = c.Scope

\* C10: ReadCodeRecord is performed only for grant_type=authorization_code; a
\* successful password, client_credentials or refresh_token request performs
\* no ReadCodeRecord.
C10_ReadOnlyForAuthorizationCode ==
    (IsTokenResp /\ resp.req.grant_type # "authorization_code") =>
        resp.reads = {}

\* the request of a token response names a grant type that is not allowed
DisallowedGrant(rsp) ==
    /\ rsp.ep = "token"
    /\ rsp.req.grant_type # ""
    /\ rsp.req.grant_type \notin Config.AllowedGrantTypes

\* C11: a token request whose grant_type is not in the configured allow-list
\* is rejected, with unauthorized_client (401) when it passes the request
\* validation that precedes the allow-list check; the grant store issues no
\* token, no ledger read is performed and no ledger write is launched.
C11_DisallowedGrantRejected ==
    [][ (resp' # resp /\ DisallowedGrant(resp')) =>
            /\ resp'.status # 200
            /\ "access_token" \notin DOMAIN resp'.body
            /\ ValidationTokenRequest(Config, resp'.req).err = "" =>
                  /\ resp'.status = 401
                  /\ resp'.body["error"] = "unauthorized_client"
            /\ resp'.minted = "" /\ resp'.reads = {} /\ resp'.launched = {}
            /\ UNCHANGED <<codes, tokens, nCodes, nTokens, ledger, pending,
                           lost, inflight, exchanged>>
      ]_vars

\* a validated request for the implicit grant that presents a live code is
\* refused with unauthorized_client and the code stays live
C11_Witness ==
    /\ DisallowedGrant(resp)
    /\ resp.status = 401
    /\ resp.body["error"] = "unauthorized_client"
    /\ resp.req.code # ""
    /\ \E c \in codes : c.Code = resp.req.code

\* C12: GetRedirectURI puts every response parameter in the query string of
\* the redirect URI for response_type=code, and in the fragment, with an
\* empty query string, for response_type=token; in both cases a non-empty
\* state of the request is in the result with its original value.
C12_RedirectEncoding ==
    (resp.ep = "GetRedirectURI" /\ resp.out.ok) =>
        LET req == resp.req.req
            data == resp.req.data
            got == IF req.ResponseType = "code" THEN QueryOf(resp.out)
                   ELSE FragmentOf(resp.out)
        IN  /\ \A k \in DOMAIN data :
                 k \in DOMAIN got /\ got[k] = <<data[k]>>
            /\ req.ResponseType = "token" => resp.out.RawQuery = <<>>
            /\ req.State # <<>> =>
                 "state" \in DOMAIN got /\ got["state"] = req.State

\* an authorize request reaches the checks of the code challenge
ReachesChallenge(r) ==
    /\ r.Method \in {"GET", "POST"}
    /\ r.client_id # ""
    /\ r.response_type \in Config.AllowedResponseTypes

\* C13: ValidationAuthorizeRequest accepts a supplied, non-empty code
\* challenge exactly when its length is in [43,128]: lengths 42 and 129 are
\* rejected with invalid_code_challenge_len, lengths 43 and 128 are
\* accepted; when the configuration mandates PKCE and no challenge is
\* supplied the request fails with code_challenge_required.
C13_ChallengeLength ==
    (resp.ep = "ValidationAuthorizeRequest" /\ ReachesChallenge(resp.req)) =>
        LET n == resp.req.ccLen
            err == resp.out.err
            ccmOK == resp.req.code_challenge_method \in
                        {""} \cup resp.cfg.AllowedCodeChallengeMethods
        IN  /\ (n # 0 /\ (n < 43 \/ n > 128)) =>
                 (err = "invalid_code_challenge_len" /\ resp.out.req = NilRequest)
            /\ (n >= 43 /\ n <= 128) =>
                 /\ err # "invalid_code_challenge_len"
                 /\ ccmOK => (err = "" /\ resp.out.req.ccLen = n)
            /\ (n = 0 /\ resp.cfg.ForcePKCE) =>
                 (err = "code_challenge_required" /\ resp.out.req = NilRequest)
            /\ (n = 0 /\ ~resp.cfg.ForcePKCE) =>
                 err \notin {"code_challenge_required",
                             "invalid_code_challenge_len"}

\* a challenge of 128 characters is accepted where PKCE is mandated
C13_Witness ==
    /\ resp.ep = "ValidationAuthorizeRequest"
    /\ resp.req.ccLen = 128
    /\ resp.cfg.ForcePKCE
    /\ resp.out.err = ""
    /\ resp.out.req.ccLen = 128

\* C14: ValidationTokenRequest enforces the table of the grant types:
\* authorization_code needs redirect_uri and code, and code_verifier when
\* PKCE is mandated; password needs username and password, and an empty
\* answer of the password handler gives invalid_grant; refresh_token needs
\* refresh_token; client_credentials needs nothing beyond the client's
\* credentials.  A missing parameter gives invalid_request, and the method
\* must be POST, or GET where the configuration allows it.
C14_GrantTable ==
    resp.ep = "ValidationTokenRequest" =>
        LET r == resp.req
            cfg == resp.cfg
            err == resp.out.err
            tgr == resp.out.tgr
            methodOK == \/ r.Method = "POST"
                        \/ (r.Method = "GET" /\ cfg.AllowGetAccessRequest)
            user == PasswordAuthorizationHandler(r.username, r.password)
        IN  /\ ~methodOK => err = "invalid_request"
            /\ (methodOK /\ r.grant_type # "" /\ r.client_id # "") =>
                 CASE r.grant_type = "authorization_code" ->
                        IF \/ r.redirect_uri = "" \/ r.code = ""
                           \/ (cfg.ForcePKCE /\ r.code_verifier = "")
                        THEN err = "invalid_request"
                        ELSE /\ err = ""
                             /\ tgr.Code = r.code
                             /\ tgr.RedirectURI = r.redirect_uri
                             /\ tgr.CodeVerifier = r.code_verifier
                   [] r.grant_type = "password" ->
                        IF r.username = "" \/ r.password = ""
                        THEN err = "invalid_request"
                        ELSE IF user = "" THEN err = "invalid_grant"
                        ELSE err = "" /\ tgr.UserID = user
                   [] r.grant_type = "refresh_token" ->
                        IF r.refresh_token = "" THEN err = "invalid_request"
                        ELSE err = "" /\ tgr.Refresh = r.refresh_token
                   [] r.grant_type = "client_credentials" ->
                        err = "" /\ tgr.ClientID = r.client_id
                   [] OTHER -> TRUE
            /\ err # "" => resp.out.tgr = NoTGR

\* a password request with a wrong password, sent with GET where GET is
\* allowed, is refused with invalid_grant
C14_Witness ==
    /\ resp.ep = "ValidationTokenRequest"
    /\ resp.req.grant_type = "password"
    /\ resp.req.Method = "GET"
    /\ resp.req.password = "wrong"
    /\ resp.req.client_id # ""
    /\ resp.out.err = "invalid_grant"

\* the grant store's rejections of the credential a token request presents
CredentialRejections ==
    {ErrInvalidAuthorizeCode, ErrInvalidCodeChallenge, ErrMissingCodeChallenge,
     ErrMissingCodeVerifier, ErrInvalidRefreshToken, ErrExpiredRefreshToken}

Taxonomy == ResponseErrors \cup {ErrInvalidAccessToken}

\* C16: no response of the authorize, token or protected-resource endpoint
\* carries the text of an internal or unexpected error: an error outside the
\* OAuth2 error taxonomy is reported as server_error with the description
\* of server_error.
C16_NoInternalErrorLeak ==
    resp.ep \in {"authorize", "token", "test"} =>
        /\ resp.text # "" => resp.text \in Taxonomy
        /\ "error" \in DOMAIN resp.body =>
             /\ resp.body["error"] \in ResponseErrors
             /\ resp.body["error_description"] =
                    Descriptions[resp.body["error"]]
        /\ resp.status = 302 =>
             \A m \in {QueryOf(resp.loc), FragmentOf(resp.loc)} :
                "error" \in DOMAIN m =>
                    \E e \in ResponseErrors :
                        /\ m["error"] = <<e>>
                        /\ m["error_description"] = <<Descriptions[e]>>

\* a response that reports a rejected authorize or token request, or any
\* bearer validation
Rejected(rsp) ==
    \/ /\ rsp.ep = "authorize"
       /\ ValidationAuthorizeRequest(Config, rsp.req).err # ""
    \/ /\ rsp.ep = "token"
       /\ rsp.status # 200
    \/ rsp.ep = "test"

\* C17: an authorize request rejected by validation, a token request
\* rejected by validation or by GetAccessToken, and every bearer validation,
\* accepted or rejected, leave the records of the ledger unchanged and
\* launch no ledger write.
C17_FailuresMutateNothing ==
    [][ (resp' # resp /\ Rejected(resp')) =>
            /\ ledger' = ledger
            /\ pending' = pending
            /\ lost' = lost
            /\ resp'.launched = {}
      ]_vars

\* a token request is rejected while the ledger holds a record and a write
\* is still running
C17_Witness ==
    /\ resp.ep = "token"
    /\ resp.status = 400
    /\ ledger # {}
    /\ pending # {}

\* the records of one type among a set of records
OfType(recs, type) == { r \in recs : r.InfoType = type }

\* C18: one CreateCodeRecord is launched for each code that is issued, none
\* for an authorize request that issues no code and none again after a
\* failure; the record is created with status Available and an empty
\* linked-token field; no CodeRecord is deleted, so the CodeRecords of the
\* ledger only grow.
C18_CodeRecordLifecycle ==
    [][ LET old == OfType(submitted, "CodeInfo")
            new == OfType(submitted', "CodeInfo")
        IN  /\ nCodes' = nCodes + 1 =>
                 \E rec \in new \ old :
                    /\ new = old \cup {rec}
                    /\ rec \in pending'
                    /\ rec.ID_code = CodeID(CodeOf(nCodes'))
                    /\ rec.Hash_code = genHashS256(CodeOf(nCodes'))
                    /\ rec.Condition = "Available"
                    /\ rec.ID_token = ""
            /\ nCodes' = nCodes => new = old
            /\ OfType(pending', "CodeInfo") \ OfType(pending, "CodeInfo")
                    \subseteq new \ old
            /\ OfType(ledger, "CodeInfo") \subseteq OfType(ledger', "CodeInfo")
            /\ Cardinality(new) = nCodes'
      ]_vars

\* the write of a code's record failed, the code was exchanged all the
\* same, and a later authorize request was refused: no record is written
C18_Witness ==
    /\ nCodes > 0
    /\ OfType(lost, "CodeInfo") # {}
    /\ OfType(ledger \cup pending, "CodeInfo") = {}
    /\ exchanged # {}
    /\ resp.ep = "authorize"
    /\ resp.status = 400

\* C19: for every access token a successful token response returns, one
\* CreateTokenRecord is launched, with the identifier "TI_"+hash(token) and
\* the stored hash hash(token); afterwards no field of a TokenRecord changes
\* but its status, and no TokenRecord is deleted.
C19_TokenRecordLifecycle ==
    [][ LET old == OfType(submitted, "TokenInfo")
            new == OfType(submitted', "TokenInfo")
            answered == /\ resp' # resp
                        /\ resp'.ep = "token"
                        /\ resp'.status = 200
        IN  /\ answered =>
                 \E rec \in new \ old :
                    /\ new = old \cup {rec}
                    /\ rec \in pending'
                    /\ resp'.launched = {rec}
                    /\ rec.ID_token = TokenID(resp'.body["access_token"])
                    /\ rec.Hash_token = genHashS256(resp'.body["access_token"])
                    /\ \A o \in old : o.ID_token # rec.ID_token
            /\ ~answered => new = old
            /\ \A r \in OfType(ledger, "TokenInfo") :
                 \E q \in OfType(ledger', "TokenInfo") :
                    [q EXCEPT !.Condition = r.Condition] = r
      ]_vars

\* the record of every token that was returned is in the ledger, under the
\* identifier a bearer validation of the token reads
C19_Witness ==
    /\ resp.ep = "test"
    /\ Cardinality(OfType(ledger, "TokenInfo")) = nTokens
    /\ nTokens > 0
    /\ \A n \in 1..nTokens :
         \E r \in ledger : /\ r.InfoType = "TokenInfo"
                            /\ r.ID_token = TokenID(AccessOf(n))
                            /\ r.Hash_token = genHashS256(AccessOf(n))

\* the statuses a record of each type can have
Statuses(type) ==
    IF type = "CodeInfo" THEN {"Available", "Exchanged", "Expired", "Revoked"}
    ELSE {"Available", "Expired", "Revoked"}

\* the key of a record
KeyOf(r) == IF r.InfoType = "CodeInfo" THEN r.ID_code ELSE r.ID_token

\* every record has a status of its type
StatusOfType == \A r \in submitted : r.Condition \in Statuses(r.InfoType)

\* C20: the status of a record is monotonic: a CodeRecord or TokenRecord
\* only moves from Available to Exchanged, Expired or Revoked (Exchanged for
\* codes only), these are terminal, and no record returns to Available.
C20_StatusMonotonic ==
    /\ []StatusOfType
    /\ [][ \A r \in ledger : \A q \in ledger' :
             (q.InfoType = r.InfoType /\ KeyOf(q) = KeyOf(r)) =>
                \/ q.Condition = r.Condition
                \/ /\ r.Condition = "Available"
                   /\ q.Condition \in Statuses(r.InfoType) \ {"Available"}
          ]_vars

\* the record of a code is in the ledger after the code was exchanged and
\* the record of the token it was exchanged for has been written
C20_Witness ==
    \E p \in exchanged :
        /\ \E c \in ledger : c.InfoType = "CodeInfo" /\ c.ID_code = CodeID(p[1])
        /\ \E t \in ledger : t.InfoType = "TokenInfo" /\ t.ID_token = TokenID(p[2])

\* C21: the linked-token field of a CodeRecord is empty until the code is
\* exchanged, and once it holds a token identifier it is never changed to a
\* different identifier.
C21_LinkedTokenSetOnce ==
    /\ [](\A c \in OfType(submitted, "CodeInfo") :
            c.ID_token # "" =>
               \E p \in exchanged : /\ c.ID_code = CodeID(p[1])
                                    /\ c.ID_token = TokenID(p[2]))
    /\ [][ \A r \in OfType(ledger, "CodeInfo") :
             \A q \in OfType(ledger', "CodeInfo") :
                (q.ID_code = r.ID_code /\ r.ID_token # "") =>
                   q.ID_token = r.ID_token
          ]_vars

\* a code was exchanged with a 200 answer while its record, visible in the
\* ledger, has an empty linked-token field
C21_Witness ==
    /\ IsAuthCodeResp
    /\ resp.status = 200
    /\ \E p \in exchanged :
          /\ p[1] = resp.req.code
          /\ \E c \in OfType(ledger, "CodeInfo") :
                c.ID_code = CodeID(p[1]) /\ c.ID_token = ""

\* the secrets the model mints
Secrets ==
    { CodeOf(n) : n \in 1..MaxCodes } \cup { AccessOf(n) : n \in 1..MaxTokens }

\* C22: record identifiers are functions of the raw secret alone: a code c
\* has the identifier "CI_"+hash(c), an access token t "TI_"+hash(t); the
\* identifier a CodeRecord is written under at issuance is the one read at
\* the exchange of the same code, the identifier a TokenRecord is written
\* under is the one read at the bearer validation of the same token, and
\* distinct secrets have distinct identifiers.
C22_IdentifiersFromSecrets ==
    /\ (resp.ep = "authorize" /\ resp.launched # {}) =>
          \A rec \in resp.launched : rec.ID_code = CodeID(resp.minted)
    /\ (IsTokenResp /\ resp.status = 200) =>
          /\ resp.reads = {CodeID(resp.req.code)}
          /\ \A g \in resp.got \ {ZeroCodeInfo} :
                \E n \in 1..nCodes : /\ resp.req.code = CodeOf(n)
                                     /\ g.ID_code = CodeID(CodeOf(n))
          /\ \A rec \in resp.launched : rec.ID_token = TokenID(RespAccess)
    /\ (resp.ep = "test" /\ resp.reads # {}) =>
          /\ resp.reads = {TokenID(BearerAuth(resp.req).token)}
          /\ \A g \in resp.got \ {ZeroTokenInfo} :
                \E n \in 1..nTokens :
                   /\ BearerAuth(resp.req).token = AccessOf(n)
                   /\ g.ID_token = TokenID(AccessOf(n))
    /\ \A c \in OfType(submitted, "CodeInfo") :
          \E n \in 1..nCodes : c.ID_code = CodeID(CodeOf(n))
    /\ \A t \in OfType(submitted, "TokenInfo") :
          \E n \in 1..nTokens : t.ID_token = TokenID(AccessOf(n))
    /\ \A a \in Secrets : \A b \in Secrets \ {a} :
          /\ CodeID(a) # CodeID(b)
          /\ TokenID(a) # TokenID(b)
          /\ CodeID(a) # TokenID(b)

\* the exchange of a code read, under the identifier computed from the code
\* in the request, the record that was written when the code was issued
C22_Witness ==
    /\ IsAuthCodeResp
    /\ resp.status = 200
    /\ resp.got \subseteq OfType(ledger, "CodeInfo")
    /\ \E g \in resp.got : /\ g.ID_code = CodeID(resp.req.code)
                            /\ g.Hash_code = genHashS256(resp.req.code)

\* the fields of a record that hold text
TextFields(rec) == DOMAIN rec \ {"Time_issueed", "Time_expiration"}

\* C23: the raw authorization code and the raw access token are never
\* stored in the ledger: no field of a CodeRecord or TokenRecord the core
\* submits equals a raw secret; the record holds the hash of its secret
\* and the identifier derived from that hash.
C23_NoRawSecretInLedger ==
    /\ \A rec \in submitted : \A f \in TextFields(rec) :
          /\ rec[f] \notin Secrets
          /\ rec[f] \notin { RefreshOf(n) : n \in 1..MaxTokens }
    /\ \A c \in OfType(submitted, "CodeInfo") :
          \E n \in 1..nCodes : /\ c.Hash_code = "sha256:" \o CodeOf(n)
                               /\ c.ID_code = "CI_" \o c.Hash_code
    /\ \A t \in OfType(submitted, "TokenInfo") :
          \E n \in 1..nTokens : /\ t.Hash_token = "sha256:" \o AccessOf(n)
                                /\ t.ID_token = "TI_" \o t.Hash_token

\* the ledger holds the record of the first code and the record of the
\* first access token, each with the hash of its secret
C23_Witness ==
    /\ inflight = {}
    /\ \E c \in OfType(ledger, "CodeInfo") :
          c.Hash_code = genHashS256(CodeOf(1))
    /\ \E t \in OfType(ledger, "TokenInfo") :
          t.Hash_token = genHashS256(AccessOf(1))

\* C27: every TokenRecord the token endpoint builds has its expiration
\* timestamp equal to its issuance timestamp, both the creation instant of
\* the access token, whatever the lifetime of the token.
C27_ExpirationIsIssuance ==
    /\ \A t \in OfType(submitted, "TokenInfo") :
          t.Time_expiration = t.Time_issueed
    /\ (IsTokenResp /\ resp.status = 200) =>
          \A rec \in resp.launched :
             \E n \in 1..nTokens :
                /\ RespAccess = AccessOf(n)
                /\ rec.Time_issueed = n
                /\ rec.Time_expiration = n

\* a token with a lifetime of 7200 seconds was returned and its record was
\* launched with the same instant in both time fields
C27_Witness ==
    /\ IsTokenResp
    /\ resp.status = 200
    /\ resp.body["expires_in"] = "7200"
    /\ \E rec \in resp.launched :
          /\ rec \in submitted
          /\ rec.Time_issueed > 0
          /\ rec.Time_expiration = rec.Time_issueed

\* the atoms of a text
AtomsOf(text) == { text[i] : i \in DOMAIN text }

\* C26: code issuance does not depend on the authentication of the resource
\* owner: HandleAuthorizeRequest does not call the UserAuthorizationHandler,
\* so a request of a session that is not logged in is answered like one of
\* a session that is, no answer is access_denied, and every CodeRecord
\* carries the same fixed owner.
C26_FixedOwner ==
    /\ \A c \in OfType(submitted, "CodeInfo") : c.DID_RO = "UserDID"
    /\ \A ti \in codes : ti.UserID = "UserDID"
    /\ resp.ep = "authorize" =>
          /\ resp.text # "access_denied"
          /\ resp.status # 403
          /\ "RawQuery" \in DOMAIN resp.loc =>
                "access_denied" \notin AtomsOf(resp.loc.RawQuery) \cup
                                       AtomsOf(resp.loc.Fragment)
          /\ \A rec \in resp.launched : rec.DID_RO = "UserDID"
          /\ (/\ resp.req.response_type = "code"
              /\ resp.req.Method = "GET"
              /\ resp.req.client_id = idvar
              /\ resp.req.redirect_uri = domainvar \o "/auth") =>
                 /\ resp.status = 302
                 /\ resp.minted # ""

\* a code was issued on a request whose session is not logged in, and its
\* record carries the fixed owner
C26_Witness ==
    /\ resp.ep = "authorize"
    /\ resp.status = 302
    /\ resp.minted # ""
    /\ resp.req.LoggedInUserID = ""
    /\ \E rec \in resp.launched : rec.DID_RO = "UserDID"

\* the ledger shows the record of an access token
Recorded(token) ==
    \E t \in OfType(ledger, "TokenInfo") :
        /\ t.ID_token = TokenID(token)
        /\ t.Hash_token = genHashS256(token)

\* the last answer is the acceptance of a bearer token
AcceptedBearer(token) ==
    /\ resp.ep = "test"
    /\ resp.status = 200
    /\ BearerAuth(resp.req).token = token

\* C28: bearer acceptance is stable and depends on the ledger alone: a token
\* is accepted only when the ledger shows its record, the record of a token
\* that was accepted stays in the ledger, and every validation whose read
\* returns that record accepts the token, whatever the status of the record
\* and whether or not the grant store still holds the token.
C28_BearerAcceptanceStable ==
    /\ \A n \in 1..MaxTokens :
          [](AcceptedBearer(AccessOf(n)) => []Recorded(AccessOf(n)))
    /\ [][ (resp' # resp /\ resp'.ep = "test") =>
             LET token == BearerAuth(resp'.req).token
             IN  /\ resp'.status = 200 => Recorded(token)
                 /\ (Recorded(token) /\ resp'.got # {ZeroTokenInfo}) =>
                       resp'.status = 200
          ]_vars

\* the first access token is accepted after a refresh replaced it in the
\* grant store and the ledger retired its record
C28_Witness ==
    /\ AcceptedBearer(AccessOf(1))
    /\ \A t \in tokens : t.Access # AccessOf(1)
    /\ tokens # {}
    /\ \E g \in resp.got : g.Condition \in {"Expired", "Revoked"}

\* C25: the invalid_grant of the issuance/exchange race is transient: an
\* exchange of a validly issued, not yet exchanged code that reads the
\* ledger while the record of the code is still on its way is rejected
\* with invalid_grant without consuming the code, so that a later exchange
\* of the same code succeeds.
C25_RaceRejectionTransient ==
    [][ (/\ resp' # resp
         /\ resp'.ep = "token"
         /\ resp'.req.grant_type = "authorization_code"
         /\ resp'.reads # {}
         /\ \E rec \in OfType(pending, "CodeInfo") :
               rec.ID_code \in resp'.reads) =>
            /\ InvalidGrantAnswer'
            /\ \E c \in codes' : c.Code = resp'.req.code
      ]_vars

\* a record of the given type and identifier is among recs
Has(recs, type, id) ==
    \E r \in OfType(recs, type) : KeyOf(r) = id

\* every code that was issued has been exchanged with a 200 answer
AllExchanged ==
    \A n \in 1..nCodes : \E p \in exchanged : p[1] = CodeOf(n)

\* C24: under a fair scheduler and a ledger that acknowledges writes, every
\* detached write that was launched lands (again and again no write is
\* outstanding, and none is lost); after a successful authorize the
\* exchange of the issued code is answered 200; a resource request bearing
\* the returned access token is eventually answered 200; and a request
\* bearing a token that was never issued is answered 400
\* invalid_access_token.  The access tokens of this flow are those the
\* exchanges return, one for each code.
C24_EndToEndLiveness ==
    /\ []<>(pending = {})
    /\ []<>AllExchanged
    /\ \A n \in 1..MaxCodes :
          (\E p \in exchanged : p[2] = AccessOf(n))
             ~> AcceptedBearer(AccessOf(n))
    /\ [](/\ lost = {}
          /\ resp.ep = "test" =>
               LET token == BearerAuth(resp.req).token
               IN  token \notin { AccessOf(n) : n \in 1..nTokens } =>
                      /\ resp.status = 400
                      /\ resp.text = ErrInvalidAccessToken)

\* the flow has run to its end: the code was exchanged, both records have
\* landed and the resource request bearing the returned token was answered
\* 200 from the record in the ledger
C24_Witness ==
    /\ pending = {}
    /\ inflight = {}
    /\ \E p \in exchanged :
          /\ Has(ledger, "CodeInfo", CodeID(p[1]))
          /\ Has(ledger, "TokenInfo", TokenID(p[2]))
          /\ AcceptedBearer(p[2])
          /\ resp.got \subseteq ledger

====
